---- MODULE Spec2Model ----
(***************************************************************************)
(* Audit / activity-tracking subsystem of Station-Manager.                 *)
(*                                                                         *)
(* The model follows one HTTP request at a time through the Express        *)
(* middleware chain and its controller, the fire-and-forget or awaited     *)
(* AuditLog.create calls it starts, and the AuditLogs table.  Business     *)
(* CRUD is abstracted to its outcome (the status the controller reaches);  *)
(* the audit code paths are modelled statement by statement.               *)
(***************************************************************************)
EXTENDS Integers, Sequences, FiniteSets, TLC

(* ------------------------------ bounds -------------------------------- *)
\* requests that arrive in one behaviour
MaxRequests == 2

(* ------------------------------ values -------------------------------- *)
\* JavaScript undefined: a missing property, parameter or return value
Absent == "absent"
\* req.user is not set (authenticateToken did not run or did not pass)
NoUser == "nouser"
\* ids of the rows of the Users table that tokens are issued for
Users == {"u1", "u2"}
\* ids of the business rows (stations, reminders, ...) requests create or address:
\* the n-th request works on the n-th id, so no two requests share a row
EntityIds == <<"e1", "e2", "e3", "e4">>

RowOf(rid) == EntityIds[rid]

\* the payload locations of the response body, in the order of the else-if chain
Locs == <<"id", "user", "station", "profile", "backup", "reminder", "role">>

LocSet == {Locs[i] : i \in 1..Len(Locs)}

\* a parsed body without any of the seven locations
NoData == [l \in LocSet |-> Absent]

\* the parsed body { data: { <loc>: { id: v } } } ("id" stands for data.id itself)
DataAt(loc, v) == [l \in LocSet |-> IF l = loc THEN v ELSE Absent]

\* res.json(obj): the body handed to res.send is the JSON text of obj
JsonBody(data) == [kind |-> "json", data |-> data]

\* no body was sent yet
NoBody == [kind |-> "none", data |-> NoData]

(* --------------------------- request values --------------------------- *)
\* req.user as authenticateToken sets it: { userId, username, roleId, role }
UserRec(u) == [present |-> TRUE, userId |-> u]

\* req.user was never set
NoUserRec == [present |-> FALSE, userId |-> Absent]

\* the role name of each account (seeded admin; technician is the other role the routers name)
RoleOf(u) == IF u = "u1" THEN "admin" ELSE "technician"

\* req.params of a route without path parameters
NoParams == [id |-> Absent, stationId |-> Absent, userId |-> Absent]

\* req.headers['x-forwarded-for'] after split(','), <<>> when the header is missing,
\* and the peer address of the socket: u2 connects through a proxy, the others directly
TransportOf(u) ==
    IF u = "u2" THEN [xff |-> <<"1.1.1.1", "2.2.2.2">>, remote |-> "10.0.0.9"]
    ELSE [xff |-> <<>>, remote |-> "10.0.0.7"]

\* faulty variant: the peer address is looked at before the forwarded header
GetClientIPPeerFirst(t) ==
    IF t.remote # Absent /\ t.remote # "" THEN t.remote
    ELSE IF Len(t.xff) > 0 /\ t.xff[1] # "" THEN t.xff[1] ELSE "0.0.0.0"

\* getClientIP: first forwarded entry, else the peer address, else "0.0.0.0"
\* (|| skips every falsy value: a missing header, an empty entry, a missing address)
GetClientIP(t) ==
    IF Len(t.xff) > 0 /\ t.xff[1] # ""
    THEN t.xff[1]
    ELSE IF t.remote # Absent /\ t.remote # "" THEN t.remote ELSE "0.0.0.0"

(* ----------------------------- route table ---------------------------- *)
\* one mutating route: how it is audited (kind), the action/targetType pair it names,
\* whether authenticateToken guards it and which roles authorizeRole admits,
\* whether it has the :id path parameter, its success status, the location of the
\* entity in its success payload (Absent: no data object) and its error statuses
Route(kind, action, targetType, auth, roles, hasId, ok, loc, errs) ==
    [kind |-> kind, action |-> action, targetType |-> targetType, auth |-> auth,
     roles |-> roles, hasId |-> hasId, ok |-> ok, loc |-> loc, errs |-> errs]

AdminOnly == {"admin"}

TechOrAdmin == {"technician", "admin"}

\* routes/users.ts and routes/roles.ts: controllers call logAuditEvent themselves
UserRoutes ==
    [createUser |-> Route("explicit", "USER_CREATED", "User", TRUE, AdminOnly, FALSE, 201, "user", {400, 500}),
     updateUser |-> Route("explicit", "USER_UPDATED", "User", TRUE, AdminOnly, TRUE, 200, "user", {400, 404, 500}),
     deleteUser |-> Route("explicit", "USER_DELETED", "User", TRUE, AdminOnly, TRUE, 200, Absent, {400, 404, 500}),
     resetUserPassword |-> Route("explicit", "USER_PASSWORD_RESET", "User", TRUE, AdminOnly, TRUE, 200, Absent, {400, 404, 500})]

RoleRoutes ==
    [createRole |-> Route("explicit", "ROLE_CREATED", "Role", TRUE, AdminOnly, FALSE, 201, "role", {400, 500}),
     updateRole |-> Route("explicit", "ROLE_UPDATED", "Role", TRUE, AdminOnly, TRUE, 200, "role", {400, 404, 500}),
     deleteRole |-> Route("explicit", "ROLE_DELETED", "Role", TRUE, AdminOnly, TRUE, 200, Absent, {400, 404, 500})]

\* routes/stations.ts, routes/profiles.ts, routes/backups.ts: no audit middleware
StationRoutes ==
    [createStation |-> Route("explicit", "STATION_CREATED", "Station", TRUE, TechOrAdmin, FALSE, 201, "station", {400, 500}),
     updateStation |-> Route("explicit", "STATION_UPDATED", "Station", TRUE, TechOrAdmin, TRUE, 200, "station", {400, 404, 500}),
     deleteStation |-> Route("explicit", "STATION_DELETED", "Station", TRUE, TechOrAdmin, TRUE, 200, Absent, {400, 404, 500})]

ProfileRoutes ==
    [createProfile |-> Route("explicit", "PROFILE_CREATED", "Profile", TRUE, TechOrAdmin, FALSE, 201, "profile", {400, 500}),
     updateProfile |-> Route("explicit", "PROFILE_UPDATED", "Profile", TRUE, TechOrAdmin, TRUE, 200, "profile", {400, 404, 500}),
     deleteProfile |-> Route("explicit", "PROFILE_DELETED", "Profile", TRUE, TechOrAdmin, TRUE, 200, Absent, {400, 404, 500})]

BackupRoutes ==
    [createBackup |-> Route("explicit", "BACKUP_CREATED", "Backup", TRUE, TechOrAdmin, FALSE, 201, "backup", {400, 500}),
     updateBackup |-> Route("explicit", "BACKUP_UPDATED", "Backup", TRUE, TechOrAdmin, TRUE, 200, "backup", {400, 404, 500}),
     deleteBackup |-> Route("explicit", "BACKUP_DELETED", "Backup", TRUE, TechOrAdmin, TRUE, 200, Absent, {400, 404, 500}),
     bulkUpdateBackupStatus |-> Route("explicit", "BACKUP_STATUS_BULK_UPDATE", "Backup", TRUE, TechOrAdmin, FALSE, 200, Absent, {400, 404, 500})]

\* routes/backupReminders.ts: the four mutating routes carry an auditLog middleware
ReminderRoutes ==
    [createReminder |-> Route("wrapped", "REMINDER_CREATED", "BackupReminder", TRUE, TechOrAdmin, FALSE, 201, "reminder", {400, 500}),
     updateReminder |-> Route("wrapped", "REMINDER_UPDATED", "BackupReminder", TRUE, TechOrAdmin, TRUE, 200, "reminder", {400, 404, 500}),
     markReminderAsResolved |-> Route("wrapped", "REMINDER_RESOLVED", "BackupReminder", TRUE, TechOrAdmin, TRUE, 200, "reminder", {400, 404, 500}),
     deleteReminder |-> Route("wrapped", "REMINDER_DELETED", "BackupReminder", TRUE, TechOrAdmin, TRUE, 200, Absent, {400, 404, 500})]

\* the auth controller: register and login are public, the other two need a token;
\* register, login and changePassword await createAuditLog, updateProfile logs nothing
AuthRoutes ==
    [register |-> Route("direct", "USER_REGISTERED", "User", FALSE, {}, FALSE, 201, "user", {400, 500}),
     login |-> Route("direct", "USER_LOGIN", "User", FALSE, {}, FALSE, 200, "user", {400, 401, 500}),
     changePassword |-> Route("direct", "PASSWORD_CHANGED", "User", TRUE, {}, FALSE, 200, Absent, {400, 404, 500}),
     updateOwnProfile |-> Route("none", "", "User", TRUE, {}, FALSE, 200, "user", {400, 404, 500})]

\* routes/index.ts mounts the routers side by side
RouteTable ==
    UserRoutes @@ RoleRoutes @@ StationRoutes @@ ProfileRoutes @@ BackupRoutes
        @@ ReminderRoutes @@ AuthRoutes

Ops == DOMAIN RouteTable

(* ------------------------------- state -------------------------------- *)
VARIABLES
    req,      \* the request being handled: its position, inputs and response
    nreq,     \* requests received so far
    writes,   \* AuditLog.create calls whose promise is still pending
    nwrites,  \* AuditLog.create calls started so far
    store,    \* the AuditLogs table, in insertion order
    settled,  \* what each finished AuditLog.create call produced at its entry point
    diag,     \* console.error lines of the audit code
    now,      \* the wall clock read by new Date(), in days
    accounts, \* the Users table: the status column of each account
    rows,     \* the BackupReminders table: ids of the rows it holds
    resp,     \* the response of the audit-log read operation that just finished
    walk,     \* the pages a client has fetched one after the other from one listing
    stats,    \* the getAuditLogStatistics call that is between two of its queries
    proc      \* the Node.js process: whether it runs, and the requests that are inside
              \* one auditLog middleware instance at the same time, with their closures

\* what the audit-log readers and the tables next to AuditLogs consist of
qvars == <<accounts, rows, resp, walk, stats>>

vars ==
    <<req, nreq, writes, nwrites, store, settled, diag, now, accounts, rows, resp, walk,
      stats, proc>>

\* the slot when no request is being handled (unit: the request is a direct call of
\* an audit entry point on arbitrary input, not one that came through the routers;
\* connected: the client has not closed the connection of the request; reason: why
\* an authentication operation answered as it did, kept for the analysis only)
IdleReq ==
    [pc |-> "idle", rid |-> 0, op |-> "", user |-> NoUserRec, params |-> NoParams,
     transport |-> [xff |-> <<>>, remote |-> Absent], resolver |-> "none",
     wrapped |-> FALSE, status |-> 0, body |-> NoBody, sent |-> 0, entity |-> Absent,
     unit |-> FALSE, connected |-> TRUE, reason |-> ""]

(* ------------------------- target resolution -------------------------- *)
\* a JavaScript value is truthy: here, neither undefined nor the empty string
Truthy(v) == v # Absent /\ v # ""

\* what a caller-supplied getTargetId produces
ResolverValue == "from-resolver"

\* the else-if chain over parsedBody.data: the value at the first location that holds one
RECURSIVE FirstPresent(_, _)
FirstPresent(data, i) ==
    IF i > Len(Locs) THEN "unknown"
    ELSE IF Truthy(data[Locs[i]]) THEN data[Locs[i]]
    ELSE FirstPresent(data, i + 1)

\* faulty variant: the else-if chain walked from data.role back to data.id
RECURSIVE LastPresent(_, _)
LastPresent(data, i) ==
    IF i < 1 THEN "unknown"
    ELSE IF Truthy(data[Locs[i]]) THEN data[Locs[i]]
    ELSE LastPresent(data, i - 1)

FromBodyReversed(body) ==
    IF body.kind = "json" THEN LastPresent(body.data, Len(Locs)) ELSE "unknown"

\* the payload branch: only a non-empty string body is parsed; a body that is not
\* JSON, or parses to null, throws inside the inner try and leaves 'unknown'
FromBody(body) ==
    IF body.kind = "json" THEN FirstPresent(body.data, 1) ELSE "unknown"

\* faulty variant: the payload is consulted before the path parameters
ResolveTargetIdPayloadFirst(resolver, params, body) ==
    IF resolver = "throws" THEN [threw |-> TRUE, targetId |-> "unknown"]
    ELSE IF resolver = "value" THEN [threw |-> FALSE, targetId |-> ResolverValue]
    ELSE IF resolver = "undef" THEN [threw |-> FALSE, targetId |-> Absent]
    ELSE IF FromBody(body) # "unknown" THEN [threw |-> FALSE, targetId |-> FromBody(body)]
    ELSE IF Truthy(params.id) THEN [threw |-> FALSE, targetId |-> params.id]
    ELSE IF Truthy(params.stationId) THEN [threw |-> FALSE, targetId |-> params.stationId]
    ELSE IF Truthy(params.userId) THEN [threw |-> FALSE, targetId |-> params.userId]
    ELSE [threw |-> FALSE, targetId |-> "unknown"]

\* lines 68-101 of the send override: resolver, then params id, stationId, userId,
\* then the payload; threw is an exception that leaves the outer try
ResolveTargetId(resolver, params, body) ==
    IF resolver = "throws" THEN [threw |-> TRUE, targetId |-> "unknown"]
    ELSE IF resolver = "value" THEN [threw |-> FALSE, targetId |-> ResolverValue]
    ELSE IF resolver = "undef" THEN [threw |-> FALSE, targetId |-> Absent]
    ELSE IF Truthy(params.id) THEN [threw |-> FALSE, targetId |-> params.id]
    ELSE IF Truthy(params.stationId) THEN [threw |-> FALSE, targetId |-> params.stationId]
    ELSE IF Truthy(params.userId) THEN [threw |-> FALSE, targetId |-> params.userId]
    ELSE [threw |-> FALSE, targetId |-> FromBody(body)]

(* ------------------------------ recorder ------------------------------ *)
\* the attributes createAuditLog hands to AuditLog.create (rid: the request that
\* caused the call, kept for the analysis only)
AuditEvent(rid, userId, action, targetType, targetId, ipAddress) ==
    [rid |-> rid, userId |-> userId, action |-> action, targetType |-> targetType,
     targetId |-> targetId, timestamp |-> now, ipAddress |-> ipAddress]

\* the AuditLogs columns are NOT NULL: an insert with a missing value is rejected
Insertable(ev) ==
    ev.userId # Absent /\ ev.action # Absent /\ ev.targetType # Absent /\ ev.targetId # Absent

\* faulty variant: createAuditLog without its catch block, the insert error propagates
CreateAuditLogRethrows(insertOk) == IF insertOk THEN "resolved" ELSE "rejected"

\* createAuditLog's promise: the try/catch around AuditLog.create swallows the error
CreateAuditLogPromise(insertOk) == "resolved"

\* faulty variant: the override does not look at req.user before it records
InterceptedSendNoActorCheck(resolver, user, params, status, body) ==
    IF status >= 200 /\ status < 300
    THEN LET t == ResolveTargetId(resolver, params, body)
         IN [dispatch |-> ~t.threw, targetId |-> t.targetId, caught |-> t.threw]
    ELSE [dispatch |-> FALSE, targetId |-> "unknown", caught |-> FALSE]

\* faulty variant: the override records whatever the status code is
InterceptedSendAnyStatus(resolver, user, params, status, body) ==
    IF user.present /\ Truthy(user.userId)
    THEN LET t == ResolveTargetId(resolver, params, body)
         IN [dispatch |-> ~t.threw, targetId |-> t.targetId, caught |-> t.threw]
    ELSE [dispatch |-> FALSE, targetId |-> "unknown", caught |-> FALSE]

\* the send override's decision (lines 65-113): whether createAuditLog is called,
\* with which targetId, and whether the outer catch logged an error
InterceptedSend(resolver, user, params, status, body) ==
    IF status >= 200 /\ status < 300 /\ user.present /\ Truthy(user.userId)
    THEN LET t == ResolveTargetId(resolver, params, body)
         IN [dispatch |-> ~t.threw, targetId |-> t.targetId, caught |-> t.threw]
    ELSE [dispatch |-> FALSE, targetId |-> "unknown", caught |-> FALSE]

\* faulty variant: logAuditEvent reads req.user outside its try block
LogAuditEventUnguarded(arg) ==
    IF arg.kind = "undefined" THEN [dispatch |-> FALSE, caught |-> FALSE, threw |-> TRUE]
    ELSE LET user == IF arg.kind = "request" THEN arg.user ELSE NoUserRec
         IN [dispatch |-> user.present /\ Truthy(user.userId), caught |-> FALSE,
             threw |-> FALSE]

\* logAuditEvent(req, ...): reads req.user inside a try; arg is what the caller passed
\* as req: a request, a string (its .user is undefined) or undefined (reading .user throws)
\* (caught: the TypeError lands in its catch block; threw: an exception leaves it)
LogAuditEvent(arg) ==
    IF arg.kind = "undefined" THEN [dispatch |-> FALSE, caught |-> TRUE, threw |-> FALSE]
    ELSE LET user == IF arg.kind = "request" THEN arg.user ELSE NoUserRec
         IN [dispatch |-> user.present /\ Truthy(user.userId), caught |-> FALSE,
             threw |-> FALSE]

\* the first argument the controllers pass to logAuditEvent: (req as any).user?.userId
ControllerLogArg(user) ==
    IF user.present /\ user.userId # Absent
    THEN [kind |-> "string", user |-> NoUserRec]
    ELSE [kind |-> "undefined", user |-> NoUserRec]

(* ------------------------------ responses ----------------------------- *)
\* the controllers' error payloads: { success: false, message } without a data object
ErrorBody == JsonBody(NoData)

\* the success payload of a route: data.<loc> holds the entity, or there is no data
SuccessBody(op, entity) ==
    IF RouteTable[op].loc = Absent THEN JsonBody(NoData)
    ELSE JsonBody(DataAt(RouteTable[op].loc, entity))

\* originalSend.call(this, body): the response leaves the server
OriginalSend(r, status, body) ==
    [r EXCEPT !.pc = "done", !.status = status, !.body = body, !.sent = @ + 1]

\* a started AuditLog.create call: via names the entry point that started it,
\* awaited whether the request's handler is suspended on it
Write(wid, ev, via, awaited) ==
    [wid |-> wid, ev |-> ev, via |-> via, awaited |-> awaited]

\* faulty variant: the override awaits createAuditLog before it calls the original send
ResSendAwaits(r, status, body) ==
    LET d == IF r.wrapped
             THEN InterceptedSend(r.resolver, r.user, r.params, status, body)
             ELSE [dispatch |-> FALSE, targetId |-> "unknown", caught |-> FALSE]
        ev == AuditEvent(r.rid, r.user.userId, RouteTable[r.op].action,
                         RouteTable[r.op].targetType, d.targetId,
                         GetClientIP(r.transport))
    IN /\ req' = IF d.dispatch THEN [r EXCEPT !.pc = "awaitAudit"]
                 ELSE OriginalSend(r, status, body)
       /\ writes' = IF d.dispatch
                    THEN writes \cup {Write(nwrites + 1, ev, "auditLog", TRUE)}
                    ELSE writes
       /\ nwrites' = IF d.dispatch THEN nwrites + 1 ELSE nwrites
       /\ diag' = IF d.caught THEN diag \cup {[rid |-> r.rid, src |-> "auditLog"]} ELSE diag

\* faulty variant: the override records only while the client is still connected
ResSendIfConnected(r, status, body) ==
    LET d == IF r.wrapped /\ r.connected
             THEN InterceptedSend(r.resolver, r.user, r.params, status, body)
             ELSE [dispatch |-> FALSE, targetId |-> "unknown", caught |-> FALSE]
        ev == AuditEvent(r.rid, r.user.userId, RouteTable[r.op].action,
                         RouteTable[r.op].targetType, d.targetId,
                         GetClientIP(r.transport))
    IN /\ req' = OriginalSend(r, status, body)
       /\ writes' = IF d.dispatch
                    THEN writes \cup {Write(nwrites + 1, ev, "auditLog", FALSE)}
                    ELSE writes
       /\ nwrites' = IF d.dispatch THEN nwrites + 1 ELSE nwrites
       /\ diag' = IF d.caught THEN diag \cup {[rid |-> r.rid, src |-> "auditLog"]} ELSE diag

\* res.status(status).json(body) on request r: through the send override when the
\* route carries an auditLog middleware, else straight out; neither the handler nor
\* the override looks at the state of the connection
ResSend(r, status, body) ==
    LET d == IF r.wrapped
             THEN InterceptedSend(r.resolver, r.user, r.params, status, body)
             ELSE [dispatch |-> FALSE, targetId |-> "unknown", caught |-> FALSE]
        ev == AuditEvent(r.rid, r.user.userId, RouteTable[r.op].action,
                         RouteTable[r.op].targetType, d.targetId,
                         GetClientIP(r.transport))
    IN /\ req' = OriginalSend(r, status, body)
       /\ writes' = IF d.dispatch
                    THEN writes \cup {Write(nwrites + 1, ev, "auditLog", FALSE)}
                    ELSE writes
       /\ nwrites' = IF d.dispatch THEN nwrites + 1 ELSE nwrites
       /\ diag' = IF d.caught THEN diag \cup {[rid |-> r.rid, src |-> "auditLog"]} ELSE diag

\* an optional number of a query string: <<>> when the parameter is missing
None == <<>>

Some(n) == <<n>>

\* no filter, no paging parameter
NoFilter ==
    [userId |-> Absent, action |-> Absent, targetType |-> Absent, targetId |-> Absent,
     startDate |-> None, endDate |-> None, search |-> Absent]

\* what a reader was asked: the :userId of the path, the query string, and whether
\* the database answers its queries
NoAsk == [key |-> Absent, filter |-> NoFilter, page |-> None, limit |-> None, dbOk |-> TRUE]

\* the three rollups of a statistics response, each a list of <<key, count>>
\* (there: a statistics response carries them)
NoRollups ==
    [there |-> FALSE, actionStats |-> <<>>, targetTypeStats |-> <<>>,
     userActivityStats |-> <<>>]

\* no read operation has answered (asked and prior are kept for the analysis only;
\* prior: the rollups of the statistics response this one directly followed, asked
\* for the same scope and days over the same table at the same time)
NoResp ==
    [op |-> "", asked |-> NoAsk,
     status |-> 0, scanned |-> FALSE, errors |-> FALSE, key |-> Absent,
     filter |-> NoFilter, items |-> <<>>, userInfo |-> Absent,
     currentPage |-> 0, itemsPerPage |-> 0, totalItems |-> 0,
     totalPages |-> [kind |-> "int", n |-> 0], hasNextPage |-> FALSE,
     hasPreviousPage |-> FALSE, totalLogs |-> 0, recentLogs |-> 0,
     days |-> None, rollups |-> NoRollups, prior |-> NoRollups]

\* no listing is being walked
NoWalk == [op |-> "", key |-> Absent, filter |-> NoFilter, limit |-> 0, total |-> 0,
           totalPages |-> [kind |-> "int", n |-> 0], pages |-> <<>>]

\* no statistics call is under way
NoStats == [pc |-> "idle", userId |-> Absent, targetType |-> Absent, days |-> None,
            daysAgo |-> 0, totalLogs |-> 0, prior |-> NoRollups]

\* requests that are inside the middleware at the same time
MaxConc == 2

\* a request that has not come in: res.statusCode starts at 200, nothing was sent
NoConcReq ==
    [pc |-> "none", user |-> NoUserRec, params |-> NoParams,
     transport |-> [xff |-> <<>>, remote |-> Absent], status |-> 200,
     sentBody |-> NoBody, sentOn |-> 0, sent |-> 0]

\* the process after start-up: running, no request inside the middleware, no
\* closure created (cells: the req and res each closure captured, by request id;
\* seq: the requests in the order their responses were sent)
ProcIdle ==
    [alive |-> TRUE, reqs |-> [i \in 1..MaxConc |-> NoConcReq],
     cells |-> [k \in 0..MaxConc |-> 0], seq |-> <<>>]

\* the seeded tables and idle readers: both accounts active, one reminder row
ReadersIdle ==
    /\ accounts = [u \in Users |-> "active"]
    /\ rows = {"r1"}
    /\ resp = NoResp
    /\ walk = NoWalk
    /\ stats = NoStats

\* what the send override does to the response (status, body) of request r, whoever
\* in the handler calls res.json: nothing on a route without auditLog middleware
SendEffect(r, status, body) ==
    LET d == IF r.wrapped
             THEN InterceptedSend(r.resolver, r.user, r.params, status, body)
             ELSE [dispatch |-> FALSE, targetId |-> "unknown", caught |-> FALSE]
    IN [dispatch |-> d.dispatch, caught |-> d.caught,
        ev |-> AuditEvent(r.rid, r.user.userId, RouteTable[r.op].action,
                          RouteTable[r.op].targetType, d.targetId,
                          GetClientIP(r.transport))]

\* faulty variant: every router puts an auditLog middleware in front of its handlers
HasAuditMiddlewareEverywhere(op) == TRUE

\* the route's handler sits behind one of the predefined auditLog middlewares
HasAuditMiddleware(op) == RouteTable[op].kind = "wrapped"

(* ------------------------------- actions ------------------------------ *)
Init ==
    /\ req = IdleReq
    /\ nreq = 0
    /\ writes = {}
    /\ nwrites = 0
    /\ store = <<>>
    /\ settled = {}
    /\ diag = {}
    /\ now = 0
    /\ ReadersIdle
    /\ proc = ProcIdle

\* the previous response has left; the next request arrives and runs the router's middleware chain: authenticateToken
\* (401 without a valid token), authorizeRole (403), then the auditLog middleware
\* of the route, which installs the send override
Arrive(op, u) ==
    LET route == RouteTable[op]
        fresh == [IdleReq EXCEPT !.rid = nreq + 1, !.op = op, !.transport = TransportOf(u)]
        id == IF route.hasId THEN RowOf(nreq + 1) ELSE Absent
    IN /\ req.pc \in {"idle", "done"}
       /\ ~req.unit
       /\ proc.alive
       /\ nreq < MaxRequests
       /\ (~route.auth => u = NoUser)
       /\ nreq' = nreq + 1
       /\ req' = IF route.auth /\ u = NoUser
                 THEN OriginalSend(fresh, 401, ErrorBody)
                 ELSE IF route.auth /\ route.roles # {} /\ RoleOf(u) \notin route.roles
                 THEN OriginalSend([fresh EXCEPT !.user = UserRec(u)], 403, ErrorBody)
                 ELSE [fresh EXCEPT !.pc = "handler",
                                    !.user = IF route.auth THEN UserRec(u) ELSE NoUserRec,
                                    !.params = [NoParams EXCEPT !.id = id],
                                    !.wrapped = HasAuditMiddleware(op)]
       /\ UNCHANGED <<writes, nwrites, store, settled, diag, now>>
       /\ UNCHANGED qvars
       /\ UNCHANGED proc

\* the ids a successful handler may come to hold: the account created or found
\* (register, login), the row it creates, or none beyond its path parameter and token
IdChoices(op) ==
    IF op \in {"register", "login"} THEN Users
    ELSE IF op \in {"createUser", "createRole", "createStation", "createProfile",
                    "createBackup", "createReminder"} THEN {"new"}
    ELSE {Absent}

\* the row the handler works on
EntityOf(r, e) ==
    IF RouteTable[r.op].hasId THEN r.params.id
    ELSE IF r.op \in {"changePassword", "updateOwnProfile"} THEN r.user.userId
    ELSE IF e = "new" THEN RowOf(r.rid)
    ELSE e

\* the targetId argument of the controller's own logAuditEvent call
ExplicitTargetId(op, entity) ==
    IF op = "bulkUpdateBackupStatus" THEN "bulk-n-backups" ELSE entity

\* await createAuditLog(userId, action, targetType, targetId, ipAddress) in the
\* handler of request r: AuditLog.create starts and the handler is suspended on it
DirectCall(r, userId, targetId) ==
    LET route == RouteTable[r.op]
        ev == AuditEvent(r.rid, userId, route.action, route.targetType, targetId,
                         GetClientIP(r.transport))
    IN /\ req' = [r EXCEPT !.pc = "awaitAudit"]
       /\ writes' = writes \cup {Write(nwrites + 1, ev, "createAuditLog", TRUE)}
       /\ nwrites' = nwrites + 1
       /\ UNCHANGED <<store, settled, diag>>

\* await logAuditEvent(arg, action, targetType, targetId) in the handler of request
\* r, then its success response: the handler is suspended only when logAuditEvent
\* reaches createAuditLog; otherwise the call returns at once and the response is sent
\* (the 500 of the controller's catch block, were logAuditEvent to throw)
ExplicitCall(r, arg, targetId) ==
    LET route == RouteTable[r.op]
        lg == LogAuditEvent(arg)
        ev == AuditEvent(r.rid, arg.user.userId, route.action, route.targetType, targetId,
                         GetClientIP(r.transport))
    IN IF lg.dispatch
       THEN /\ req' = [r EXCEPT !.pc = "awaitAudit"]
            /\ writes' = writes \cup {Write(nwrites + 1, ev, "logAuditEvent", TRUE)}
            /\ nwrites' = nwrites + 1
            /\ UNCHANGED <<store, settled, diag>>
       ELSE LET status == IF lg.threw THEN 500 ELSE route.ok
                body == IF lg.threw THEN ErrorBody ELSE SuccessBody(r.op, r.entity)
                d == SendEffect(r, status, body)
            IN /\ req' = OriginalSend(r, status, body)
               /\ writes' = IF d.dispatch
                            THEN writes \cup {Write(nwrites + 1, d.ev, "auditLog", FALSE)}
                            ELSE writes
               /\ nwrites' = IF d.dispatch THEN nwrites + 1 ELSE nwrites
               /\ diag' = diag
                          \cup (IF lg.caught THEN {[rid |-> r.rid, src |-> "logAuditEvent"]} ELSE {})
                          \cup (IF d.caught THEN {[rid |-> r.rid, src |-> "auditLog"]} ELSE {})
               /\ UNCHANGED <<store, settled>>

\* the controller runs to its response or to its awaited audit call; status is the
\* outcome its business logic reaches, e the id of the row it creates or finds
Handle(status, e) ==
    LET route == RouteTable[req.op]
        entity == EntityOf(req, e)
        r1 == [req EXCEPT !.entity = entity]
    IN /\ req.pc = "handler"
       /\ ~req.unit
       /\ proc.alive
       /\ status \in route.errs \cup {route.ok}
       /\ e \in IF status = route.ok THEN IdChoices(req.op) ELSE {Absent}
       /\ IF status # route.ok
          THEN /\ ResSend(req, status, ErrorBody)
               /\ UNCHANGED <<store, settled>>
          ELSE IF route.kind = "direct"
          THEN DirectCall(r1, entity, entity)
          ELSE IF route.kind = "explicit"
          THEN ExplicitCall(r1, ControllerLogArg(req.user), ExplicitTargetId(req.op, entity))
          ELSE /\ ResSend(r1, route.ok, SuccessBody(req.op, entity))
               /\ UNCHANGED <<store, settled>>
       /\ UNCHANGED <<nreq, now>>
       /\ UNCHANGED qvars
       /\ UNCHANGED proc

\* faulty variant: the row is stamped by the database when the insert completes
RowStampedAtInsert(ev, clock) == [ev EXCEPT !.timestamp = clock]

\* the row AuditLog.create inserts when it completes at time clock: its timestamp is
\* the new Date() that createAuditLog put into the attributes when it was called
RowInserted(ev, clock) == ev

\* faulty variant: createAuditLog starts AuditLog.create and does not wait for it
WriteIsFloating(via) == FALSE

\* the promise of AuditLog.create is awaited inside createAuditLog's try block,
\* whichever entry point (via) made the call
WriteIsAwaited(via) == TRUE

\* what the entry point's caller sees of a finished write: logAuditEvent wraps
\* createAuditLog in its own try/catch, the other callers hold createAuditLog's promise
EntryPromise(via, insertOk) ==
    IF via = "logAuditEvent" THEN "resolved" ELSE CreateAuditLogPromise(insertOk)

\* the console.error lines a finished write leaves: createAuditLog's catch on a
\* failed insert, else (were the rejection to escape) the catch of whoever called it
DiagOf(w, insertOk) ==
    IF insertOk THEN {}
    ELSE IF CreateAuditLogPromise(FALSE) = "resolved"
    THEN {[rid |-> w.ev.rid, src |-> "createAuditLog"]}
    ELSE IF w.via = "auditLog" THEN {[rid |-> w.ev.rid, src |-> "auditLog.catch"]}
    ELSE IF w.via = "logAuditEvent" THEN {[rid |-> w.ev.rid, src |-> "logAuditEvent"]}
    ELSE {[rid |-> w.ev.rid, src |-> "controller"]}

\* AuditLog.create finishes (insertOk: the row was inserted). An awaited write
\* resumes its handler, which sends its success response, or its 500 from the
\* controller's catch block when the awaited promise rejected. A rejection that no
\* one holds reaches process.on('unhandledRejection'), which logs it and exits
Settle(w, insertOk) ==
    LET resumes == w.awaited /\ req.pc = "awaitAudit" /\ req.rid = w.ev.rid
        fine == EntryPromise(w.via, insertOk) = "resolved"
        status == IF fine THEN RouteTable[req.op].ok ELSE 500
        body == IF fine THEN SuccessBody(req.op, req.entity) ELSE ErrorBody
        d == SendEffect(req, status, body)
        sends == resumes /\ d.dispatch
        escapes == ~insertOk /\ ~WriteIsAwaited(w.via)
    IN /\ w \in writes
       /\ proc.alive
       /\ insertOk => Insertable(w.ev)
       /\ writes' = (writes \ {w})
                    \cup (IF sends THEN {Write(nwrites + 1, d.ev, "auditLog", FALSE)} ELSE {})
       /\ nwrites' = IF sends THEN nwrites + 1 ELSE nwrites
       /\ store' = IF insertOk THEN Append(store, RowInserted(w.ev, now)) ELSE store
       /\ settled' = settled \cup {[wid |-> w.wid, rid |-> w.ev.rid, via |-> w.via,
                                    ok |-> insertOk, promise |-> EntryPromise(w.via, insertOk)]}
       /\ diag' = diag \cup DiagOf(w, insertOk)
                  \cup (IF escapes THEN {[rid |-> w.ev.rid, src |-> "unhandledRejection"]} ELSE {})
                  \cup (IF resumes /\ d.caught THEN {[rid |-> req.rid, src |-> "auditLog"]} ELSE {})
       /\ req' = IF resumes THEN OriginalSend(req, status, body) ELSE req
       /\ proc' = IF escapes THEN [proc EXCEPT !.alive = FALSE] ELSE proc
       /\ UNCHANGED <<nreq, now>>
       /\ UNCHANGED qvars

\* the insert succeeds
InsertOk == \E w \in writes : Settle(w, TRUE)

\* the insert fails: the Event Store is unavailable or rejects the row
InsertFail == \E w \in writes : Settle(w, FALSE)

Receive ==
    \E op \in Ops, u \in Users \cup {NoUser} : Arrive(op, u)

Controller ==
    \E status \in {200, 201, 400, 401, 404, 500}, e \in Users \cup {"new", Absent} :
        Handle(status, e)

Next == Receive \/ Controller \/ InsertOk \/ InsertFail

Spec == Init /\ [][Next]_vars

(* ---------------- the audit entry points on arbitrary input ------------ *)
\* req.user in every shape the guards distinguish: unset, set without userId, set
UnitUsers == {NoUserRec, [present |-> TRUE, userId |-> Absent], UserRec("u1")}

\* req.params with each of the three parameters the override reads present or not
UnitParams ==
    [id : {Absent, "p-id"}, stationId : {Absent, "p-station"}, userId : {Absent, "p-user"}]

\* getTargetId: not supplied, returns an id, returns undefined, throws
Resolvers == {"none", "value", "undef", "throws"}

\* res.statusCode on both sides of the 2xx range
UnitStatuses == {199, 200, 201, 299, 300, 404, 500}

\* the id stored at each payload location, all different and different from the params
LocVal ==
    [id |-> "d-id", user |-> "d-user", station |-> "d-station", profile |-> "d-profile",
     backup |-> "d-backup", reminder |-> "d-reminder", role |-> "d-role"]

\* bodies handed to res.send: JSON text whose data object holds any subset of the
\* locations (the empty subset: no data), an object that is not a string, a string
\* that is not JSON, the JSON text "null", and the empty string
UnitBodies ==
    {JsonBody([l \in LocSet |-> IF l \in S THEN LocVal[l] ELSE Absent]) : S \in SUBSET LocSet}
        \cup {[kind |-> k, data |-> NoData] : k \in {"object", "text", "jsonNull", "empty"}}

\* what a caller may pass to logAuditEvent as req
LogArgs ==
    {[kind |-> "undefined", user |-> NoUserRec], [kind |-> "string", user |-> NoUserRec]}
        \cup {[kind |-> "request", user |-> u] : u \in UnitUsers}

\* one call is about to happen: a request stands behind an auditLog middleware built
\* with or without a resolver (updateReminder's action pair), or in a handler about
\* to call logAuditEvent (createStation's) or createAuditLog (login's)
InitUnit ==
    /\ req \in {[IdleReq EXCEPT !.pc = "handler", !.rid = 1, !.op = "updateReminder",
                                !.unit = TRUE, !.user = u, !.params = p, !.resolver = rs,
                                !.wrapped = TRUE, !.transport = TransportOf(NoUser)] :
                    u \in UnitUsers, p \in UnitParams, rs \in Resolvers}
            \cup {[IdleReq EXCEPT !.pc = "handler", !.rid = 1, !.op = op, !.unit = TRUE,
                                  !.transport = TransportOf(NoUser)] :
                    op \in {"createStation", "login"}}
    /\ nreq = 1
    /\ writes = {}
    /\ nwrites = 0
    /\ store = <<>>
    /\ settled = {}
    /\ diag = {}
    /\ now = 0
    /\ ReadersIdle
    /\ proc = ProcIdle

\* the wrapped handler sends its response
UnitSend(status, body) ==
    /\ req.pc = "handler"
    /\ req.unit
    /\ req.wrapped
    /\ ResSend(req, status, body)
    /\ UNCHANGED <<nreq, store, settled, now>>
    /\ UNCHANGED qvars
    /\ UNCHANGED proc

\* a handler awaits logAuditEvent(arg, ...)
UnitLog(arg, targetId) ==
    /\ req.pc = "handler"
    /\ req.unit
    /\ RouteTable[req.op].kind = "explicit"
    /\ ExplicitCall(req, arg, targetId)
    /\ UNCHANGED <<nreq, now>>
    /\ UNCHANGED qvars
    /\ UNCHANGED proc

\* a handler awaits createAuditLog(userId, ...)
UnitCreate(userId, targetId) ==
    /\ req.pc = "handler"
    /\ req.unit
    /\ RouteTable[req.op].kind = "direct"
    /\ DirectCall(req, userId, targetId)
    /\ UNCHANGED <<nreq, now>>
    /\ UNCHANGED qvars
    /\ UNCHANGED proc

SendAny == \E status \in UnitStatuses, body \in UnitBodies : UnitSend(status, body)

LogAny == \E arg \in LogArgs, targetId \in {"t1", Absent} : UnitLog(arg, targetId)

CreateAny == \E userId \in {"u1", Absent}, targetId \in {"t1", Absent} : UnitCreate(userId, targetId)

NextUnit == SendAny \/ LogAny \/ CreateAny \/ InsertOk \/ InsertFail

SpecUnit == InitUnit /\ [][NextUnit]_vars

\* the routed system and the entry points on arbitrary input, side by side
SpecAny == (Init \/ InitUnit) /\ [][Next \/ NextUnit]_vars

(* ------------------- the caller's address, on any transport ----------- *)
\* x-forwarded-for after split(','): header missing, empty, one entry, two entries,
\* an empty first entry before a second one, a first entry that is a blank;
\* remoteAddress of the socket: undefined once the socket is destroyed, or set
Transports ==
    [xff : {<<>>, <<"">>, <<"1.1.1.1">>, <<"1.1.1.1", "2.2.2.2">>, <<"", "2.2.2.2">>, <<" ">>},
     remote : {Absent, "10.0.0.7"}]

\* a request of the actor u1 on any transport stands behind updateReminder's
\* middleware, or in a handler about to call logAuditEvent or createAuditLog
InitAddr ==
    /\ req \in {[IdleReq EXCEPT !.pc = "handler", !.rid = 1, !.op = op, !.unit = TRUE,
                                !.user = UserRec("u1"), !.transport = t,
                                !.wrapped = HasAuditMiddleware(op)] :
                    op \in {"updateReminder", "createStation", "login"}, t \in Transports}
    /\ nreq = 1
    /\ writes = {}
    /\ nwrites = 0
    /\ store = <<>>
    /\ settled = {}
    /\ diag = {}
    /\ now = 0
    /\ ReadersIdle
    /\ proc = ProcIdle

SpecAddr == InitAddr /\ [][NextUnit]_vars

(* --------------------------- audit-log readers ------------------------ *)
\* rows the AuditLogs table grows to
MaxEvents == 2

\* days the clock advances
MaxClock == 1

\* getAuditLogsSchema: page defaults to 1, limit to 10 and is at most 100
DefaultPage == 1

DefaultLimit == 10

MaxLimit == 100

\* getAuditLogStatistics: days = 30 unless given
DefaultDays == 30

\* an id no row of Users carries
GhostUser == "u9"

\* the value of an optional number, d when it is missing
OrElse(opt, d) == IF opt = None THEN d ELSE opt[1]

Min(a, b) == IF a <= b THEN a ELSE b

\* getAuditLogsSchema.validate(req.query): page an integer >= 1, limit an integer in
\* 1..100; startDate and endDate each an ISO date, with no rule relating the two
\* (userId and targetId must be uuids, action a non-empty string: the ones asked are)
GetAuditLogsSchema(q) ==
    /\ q.page = None \/ q.page[1] >= 1
    /\ q.limit = None \/ (q.limit[1] >= 1 /\ q.limit[1] <= MaxLimit)

\* the letters, upper and lower case side by side
UpperCase ==
    <<"A", "B", "C", "D", "E", "F", "G", "H", "I", "J", "K", "L", "M",
      "N", "O", "P", "Q", "R", "S", "T", "U", "V", "W", "X", "Y", "Z">>

LowerCase ==
    <<"a", "b", "c", "d", "e", "f", "g", "h", "i", "j", "k", "l", "m",
      "n", "o", "p", "q", "r", "s", "t", "u", "v", "w", "x", "y", "z">>

\* a character without its case
Fold(c) ==
    IF \E i \in DOMAIN UpperCase : UpperCase[i] = c
    THEN LowerCase[CHOOSE i \in DOMAIN UpperCase : UpperCase[i] = c]
    ELSE c

\* the characters of the strings that columns and query strings hold
Chars(t) ==
    CASE t = "USER_LOGIN" -> <<"U", "S", "E", "R", "_", "L", "O", "G", "I", "N">>
      [] t = "REMINDER_UPDATED" ->
            <<"R", "E", "M", "I", "N", "D", "E", "R", "_", "U", "P", "D", "A", "T", "E", "D">>
      [] t = "User" -> <<"U", "s", "e", "r">>
      [] t = "BackupReminder" ->
            <<"B", "a", "c", "k", "u", "p", "R", "e", "m", "i", "n", "d", "e", "r">>
      [] t = "Ann" -> <<"A", "n", "n">>
      [] t = "Lee" -> <<"L", "e", "e">>
      [] t = "admin" -> <<"a", "d", "m", "i", "n">>
      [] t = "Bob" -> <<"B", "o", "b">>
      [] t = "Ray" -> <<"R", "a", "y">>
      [] t = "tech" -> <<"t", "e", "c", "h">>
      [] t = "login" -> <<"l", "o", "g", "i", "n">>
      [] t = "user" -> <<"u", "s", "e", "r">>
      [] t = "bob" -> <<"b", "o", "b">>
      [] OTHER -> <<>>

\* column ILIKE '%pattern%': the pattern occurs in the text, case ignored
ILike(text, pattern) ==
    LET t == [i \in DOMAIN Chars(text) |-> Fold(Chars(text)[i])]
        p == [i \in DOMAIN Chars(pattern) |-> Fold(Chars(pattern)[i])]
    IN \E k \in 0..(Len(t) - Len(p)) : SubSeq(t, k + 1, k + Len(p)) = p

\* the firstName, lastName and username columns of the Users rows
NamesOf(u) ==
    IF u = "u1" THEN [firstName |-> "Ann", lastName |-> "Lee", username |-> "admin"]
    ELSE [firstName |-> "Bob", lastName |-> "Ray", username |-> "tech"]

\* the Op.or clause of the search text over action, targetType and the joined user
SearchClause(ev, text) ==
    \/ ILike(ev.action, text)
    \/ ILike(ev.targetType, text)
    \/ ILike(NamesOf(ev.userId).firstName, text)
    \/ ILike(NamesOf(ev.userId).lastName, text)
    \/ ILike(NamesOf(ev.userId).username, text)

\* the where clause built from the filter: each supplied dimension must match, and
\* the Op.or clause is one more key of the same object (Object.assign)
Matches(ev, f) ==
    /\ f.userId # Absent => ev.userId = f.userId
    /\ Truthy(f.action) => ILike(ev.action, f.action)
    /\ f.targetType # Absent => ev.targetType = f.targetType
    /\ f.targetId # Absent => ev.targetId = f.targetId
    /\ f.startDate # None => ev.timestamp >= f.startDate[1]
    /\ f.endDate # None => ev.timestamp <= f.endDate[1]
    /\ Truthy(f.search) => SearchClause(ev, f.search)

\* config.ts: every environment runs on MySQL
Dialect == "mysql"

\* the SQL operator Sequelize writes for Op.iLike is ILIKE in every dialect; only
\* PostgreSQL parses it, the others answer with a syntax error
ParsesILike(dialect) == dialect = "postgres"

\* the statement built from the where clause is one the database executes
QueryRuns(f) == (Truthy(f.action) \/ Truthy(f.search)) => ParsesILike(Dialect)

\* the rows (by position in the table) that satisfy the where clause
Matching(f) == {i \in DOMAIN store : Matches(store[i], f)}

\* order: [['timestamp', 'DESC']] over the rows S: every listing the database may
\* produce; rows with equal timestamp come in whatever order the query plan yields
Orders(S) ==
    {o \in [1..Cardinality(S) -> S] :
        /\ \A i, j \in DOMAIN o : i # j => o[i] # o[j]
        /\ \A i, j \in DOMAIN o : i < j => store[o[i]].timestamp >= store[o[j]].timestamp}

\* LIMIT offset, limit applied to the ordered rows o
PageOf(o, offset, limit) == SubSeq(o, offset + 1, Min(offset + limit, Len(o)))

\* Math.ceil(total / limit) as JavaScript computes it: 0 / 0 is NaN, n / 0 is Infinity
TotalPages(total, limit) ==
    IF limit = 0
    THEN IF total = 0 THEN [kind |-> "NaN", n |-> 0] ELSE [kind |-> "Infinity", n |-> 0]
    ELSE [kind |-> "int", n |-> (total + limit - 1) \div limit]

\* page < totalPages in JavaScript: false against NaN, true against Infinity
JsLess(page, tp) ==
    IF tp.kind = "NaN" THEN FALSE
    ELSE IF tp.kind = "Infinity" THEN TRUE
    ELSE page < tp.n

\* a response of one of the read operations
Reply(op, status) == [NoResp EXCEPT !.op = op, !.status = status]

\* the response r to what was asked
To(key, q, dbOk, r) ==
    [r EXCEPT !.asked = [key |-> key, filter |-> q.filter, page |-> q.page,
                         limit |-> q.limit, dbOk |-> dbOk]]

\* faulty variant: every read leaves a row of its own in the table
StoreAfterReadLogged(st) ==
    IF Len(st) < MaxEvents
    THEN Append(st, [rid |-> 0, userId |-> "u1", action |-> "AUDIT_LOG_VIEWED",
                     targetType |-> "AuditLog", targetId |-> "unknown",
                     timestamp |-> 0, ipAddress |-> "0.0.0.0"])
    ELSE st

\* the AuditLogs table after findAndCountAll, findByPk, count and findAll: they select
StoreAfterRead(st) == st

\* faulty variant: the actor is not looked up
UserExistsAlways(userId) == TRUE

\* User.findByPk(userId) finds a row, whatever its status
UserExists(userId) == userId \in DOMAIN accounts

\* the 200 response of a listing: rows of the page and the pagination block
ListReply(op, key, f, page, limit, o, userInfo) ==
    LET total == Len(o)
        tp == TotalPages(total, limit)
    IN [Reply(op, 200) EXCEPT
            !.scanned = TRUE, !.key = key, !.filter = f, !.userInfo = userInfo,
            !.items = PageOf(o, (page - 1) * limit, limit),
            !.currentPage = page, !.itemsPerPage = limit, !.totalItems = total,
            !.totalPages = tp, !.hasNextPage = JsLess(page, tp),
            !.hasPreviousPage = page > 1]

\* the walk after a listing answered r: page 1 starts a walk, the next page of the
\* same listing, fetched right after, continues it, anything else ends it
WalkAfter(r) ==
    IF r.status # 200 THEN NoWalk
    ELSE IF r.currentPage = 1
    THEN [op |-> r.op, key |-> r.key, filter |-> r.filter, limit |-> r.itemsPerPage,
          total |-> r.totalItems, totalPages |-> r.totalPages, pages |-> <<r.items>>]
    ELSE IF /\ walk.op = r.op /\ walk.key = r.key /\ walk.filter = r.filter
            /\ walk.limit = r.itemsPerPage /\ r.currentPage = Len(walk.pages) + 1
    THEN [walk EXCEPT !.pages = Append(@, r.items)]
    ELSE NoWalk

\* the client asks once the previous answer is gone, or asks for the page that
\* follows the ones it has walked
MayAsk(op, key, f, page, limit) ==
    \/ resp = NoResp
    \/ /\ walk.op = op /\ walk.key = key /\ walk.filter = f
       /\ walk.limit = limit /\ page = Len(walk.pages) + 1

\* getAuditLogs(req, res) with query q; dbOk: the database answers the query
\* (else the catch block sends 500), o: the order it returns the matching rows in
GetAuditLogs(q, dbOk, o) ==
    LET page == OrElse(q.page, DefaultPage)
        limit == OrElse(q.limit, DefaultLimit)
        r == IF ~GetAuditLogsSchema(q)
             THEN [Reply("getAuditLogs", 400) EXCEPT !.errors = TRUE]
             ELSE IF ~dbOk \/ ~QueryRuns(q.filter)
             THEN [Reply("getAuditLogs", 500) EXCEPT !.scanned = TRUE]
             ELSE ListReply("getAuditLogs", Absent, q.filter, page, limit, o, Absent)
    IN /\ stats.pc = "idle"
       /\ MayAsk("getAuditLogs", Absent, q.filter, page, limit)
       /\ resp' = To(Absent, q, dbOk, r)
       /\ walk' = WalkAfter(r)
       /\ store' = IF GetAuditLogsSchema(q) THEN StoreAfterRead(store) ELSE store
       /\ UNCHANGED <<proc, req, nreq, writes, nwrites, settled, diag, now, accounts, rows, stats>>

\* getAuditLogsByUser(req, res) for /user/:userId with query q: page and limit go
\* through Number() unchecked; a negative offset is refused by the database
GetAuditLogsByUser(userId, q, dbOk, o) ==
    LET page == OrElse(q.page, DefaultPage)
        limit == OrElse(q.limit, DefaultLimit)
        f == [NoFilter EXCEPT !.userId = userId, !.action = q.filter.action,
                              !.targetType = q.filter.targetType]
        r == IF ~UserExists(userId)
             THEN Reply("getAuditLogsByUser", 404)
             ELSE IF ~dbOk \/ ~QueryRuns(f) \/ (page - 1) * limit < 0
             THEN [Reply("getAuditLogsByUser", 500) EXCEPT !.scanned = TRUE]
             ELSE ListReply("getAuditLogsByUser", userId, f, page, limit, o, userId)
    IN /\ stats.pc = "idle"
       /\ q.filter.userId = Absent /\ q.filter.startDate = None /\ q.filter.endDate = None
       /\ q.filter.targetId = Absent /\ q.filter.search = Absent
       /\ MayAsk("getAuditLogsByUser", userId, f, page, limit)
       /\ resp' = To(userId, q, dbOk, r)
       /\ walk' = WalkAfter(r)
       /\ store' = IF UserExists(userId) THEN StoreAfterRead(store) ELSE store
       /\ UNCHANGED <<proc, req, nreq, writes, nwrites, settled, diag, now, accounts, rows, stats>>

\* getAuditLogById(req, res) for /:id (ids are positions in the table here)
GetAuditLogById(id, dbOk) ==
    /\ stats.pc = "idle"
    /\ resp = NoResp
    /\ resp' = IF ~dbOk THEN [Reply("getAuditLogById", 500) EXCEPT !.scanned = TRUE]
               ELSE IF id \in DOMAIN store
               THEN [Reply("getAuditLogById", 200) EXCEPT !.scanned = TRUE, !.items = <<id>>]
               ELSE [Reply("getAuditLogById", 404) EXCEPT !.scanned = TRUE]
    /\ walk' = NoWalk
    /\ store' = StoreAfterRead(store)
    /\ UNCHANGED <<proc, req, nreq, writes, nwrites, settled, diag, now, accounts, rows, stats>>

\* the scope of a statistics call as a where clause
Scope(userId, targetType) ==
    [NoFilter EXCEPT !.userId = userId, !.targetType = targetType]

\* getAuditLogStatistics, up to its first query: daysAgo is computed from the clock
\* and totalLogs = await AuditLog.count({ where: whereClause }) is taken
StatsCountTotal(userId, targetType, days) ==
    /\ stats.pc = "idle"
    /\ resp = NoResp \/ (resp.op = "getAuditLogStatistics" /\ resp.status = 200)
    /\ stats' = [pc |-> "counted", userId |-> userId, targetType |-> targetType,
                 days |-> days, daysAgo |-> now - OrElse(days, DefaultDays),
                 totalLogs |-> Cardinality(Matching(Scope(userId, targetType))),
                 prior |-> IF /\ resp.op = "getAuditLogStatistics"
                              /\ resp.filter = Scope(userId, targetType)
                              /\ resp.days = days
                           THEN resp.rollups ELSE NoRollups]
    /\ resp' = NoResp
    /\ walk' = NoWalk
    /\ store' = StoreAfterRead(store)
    /\ UNCHANGED <<proc, req, nreq, writes, nwrites, settled, diag, now, accounts, rows>>

\* limit: 10 of the three rollup queries
TopN == 10

\* the rows of the scope inside the window: recentWhereClause
Recent == {i \in Matching(Scope(stats.userId, stats.targetType)) :
                store[i].timestamp >= stats.daysAgo}

\* GROUP BY column over the rows S: the groups and the COUNT of each
GroupsOf(S, column) == {store[i][column] : i \in S}

CountOf(S, column, k) == Cardinality({i \in S : store[i][column] = k})

\* GROUP BY column ORDER BY COUNT(id) DESC LIMIT 10 over the rows S: every result the
\* database may produce; groups of equal count come in whatever order the plan yields
RollupOrders(S, column) ==
    LET G == GroupsOf(S, column)
        sorted == {o \in [1..Cardinality(G) -> G] :
                     /\ \A i, j \in DOMAIN o : i # j => o[i] # o[j]
                     /\ \A i, j \in DOMAIN o :
                           i < j => CountOf(S, column, o[i]) >= CountOf(S, column, o[j])}
    IN {[i \in 1..Min(TopN, Len(o)) |-> <<o[i], CountOf(S, column, o[i])>>] : o \in sorted}

\* getAuditLogStatistics, from its second query to its response:
\* recentLogs = await AuditLog.count({ where: recentWhereClause }), then the rollups
\* by action (ra), targetType (rt) and userId (ru) over the same where clause
StatsCountRecent(dbOk, ra, rt, ru) ==
    LET recent == Recent
    IN /\ stats.pc = "counted"
       /\ resp' = IF dbOk
                  THEN [Reply("getAuditLogStatistics", 200) EXCEPT
                            !.scanned = TRUE, !.filter = Scope(stats.userId, stats.targetType),
                            !.totalLogs = stats.totalLogs,
                            !.recentLogs = Cardinality(recent),
                            !.days = stats.days,
                            !.rollups = [there |-> TRUE, actionStats |-> ra,
                                         targetTypeStats |-> rt, userActivityStats |-> ru],
                            !.prior = stats.prior]
                  ELSE [Reply("getAuditLogStatistics", 500) EXCEPT !.scanned = TRUE]
       /\ stats' = NoStats
       /\ store' = StoreAfterRead(store)
       /\ UNCHANGED <<proc, req, nreq, writes, nwrites, settled, diag, now, accounts, rows, walk>>

\* what some request's createAuditLog inserts for actor u: a login of u1, a reminder
\* change by u2
EventBy(u) ==
    IF u = "u1"
    THEN AuditEvent(0, u, "USER_LOGIN", "User", u, GetClientIP(TransportOf(u)))
    ELSE AuditEvent(0, u, "REMINDER_UPDATED", "BackupReminder", "r1", GetClientIP(TransportOf(u)))

\* AuditLog.create of some request of the active account u inserts its row
Record(u) ==
    /\ Len(store) < MaxEvents
    /\ accounts[u] = "active"
    /\ EventBy(u).targetType = "BackupReminder" => EventBy(u).targetId \in rows
    /\ store' = Append(store, EventBy(u))
    /\ resp' = NoResp
    /\ walk' = NoWalk
    /\ stats' = [stats EXCEPT !.prior = NoRollups]
    /\ UNCHANGED <<proc, req, nreq, writes, nwrites, settled, diag, now, accounts, rows>>

\* a day passes (the queries of one statistics call are a moment apart: only
\* writers get in between them)
Tick ==
    /\ stats.pc = "idle"
    /\ now < MaxClock
    /\ now' = now + 1
    /\ resp' = NoResp
    /\ walk' = NoWalk
    /\ UNCHANGED <<proc, req, nreq, writes, nwrites, store, settled, diag, accounts, rows, stats>>

\* faulty variant: the foreign key deletes the history along with the row it names
StoreAfterDeleteCascade(st, column, id) == SelectSeq(st, LAMBDA ev : ev[column] # id)

\* the AuditLogs table after a row of another table was deactivated or destroyed:
\* the userId key is ON DELETE RESTRICT, targetId is a plain string; nothing follows
StoreAfterDelete(st, column, id) == st

\* deleteUser by the admin u1 on another account: user.update({ status: 'inactive' })
DeleteUser(u) ==
    /\ stats.pc = "idle"
    /\ u # "u1"
    /\ accounts[u] = "active"
    /\ accounts' = [accounts EXCEPT ![u] = "inactive"]
    /\ store' = StoreAfterDelete(store, "userId", u)
    /\ resp' = NoResp
    /\ walk' = NoWalk
    /\ UNCHANGED <<proc, req, nreq, writes, nwrites, settled, diag, now, rows, stats>>

\* deleteReminder: reminder.destroy()
DeleteReminder(id) ==
    /\ stats.pc = "idle"
    /\ id \in rows
    /\ rows' = rows \ {id}
    /\ store' = StoreAfterDelete(store, "targetId", id)
    /\ resp' = NoResp
    /\ walk' = NoWalk
    /\ UNCHANGED <<proc, req, nreq, writes, nwrites, settled, diag, now, accounts, stats>>

\* the filters the readers are asked with: none, one actor, one target type, a
\* one-day window, a window whose start lies after its end
Filters ==
    {NoFilter,
     [NoFilter EXCEPT !.userId = "u1"],
     [NoFilter EXCEPT !.targetType = "User"],
     [NoFilter EXCEPT !.startDate = Some(1), !.endDate = Some(1)],
     [NoFilter EXCEPT !.startDate = Some(1), !.endDate = Some(0)]}

\* page and limit as sent: both missing; every page of a walk with one or two rows a
\* page and the page after the last; page 0; the limits 0, 100 and 101
Pagings ==
    {[page |-> None, limit |-> None]}
        \cup {[page |-> Some(p), limit |-> Some(1)] : p \in 0..(MaxEvents + 1)}
        \cup {[page |-> Some(p), limit |-> Some(2)] : p \in 1..2}
        \cup {[page |-> Some(1), limit |-> Some(l)] : l \in {0, MaxLimit, MaxLimit + 1}}

\* the filters on text and target id: an action fragment, a search text found in an
\* action and a target type, one found in a first name, the empty search text, an
\* action fragment next to a search text, a target id
TextFilters ==
    {[NoFilter EXCEPT !.action = "login"],
     [NoFilter EXCEPT !.search = "user"],
     [NoFilter EXCEPT !.search = "bob"],
     [NoFilter EXCEPT !.search = ""],
     [NoFilter EXCEPT !.action = "login", !.search = "user"],
     [NoFilter EXCEPT !.targetId = "r1"]}

Queries ==
    {[filter |-> f, page |-> pg.page, limit |-> pg.limit] : f \in Filters, pg \in Pagings}
        \cup {[filter |-> f, page |-> None, limit |-> None] : f \in TextFilters}

\* /user/:userId takes targetType and action from the query, no dates, no userId
UserQueries ==
    {q \in Queries : q.filter \in {NoFilter, [NoFilter EXCEPT !.targetType = "User"],
                                   [NoFilter EXCEPT !.action = "login"]}}

\* a reader can be asked: no statistics call is between its queries, and the last
\* answer is gone or was a page of a walk
Asking ==
    /\ stats.pc = "idle"
    /\ resp = NoResp \/ walk # NoWalk \/ (resp.op = "getAuditLogStatistics" /\ resp.status = 200)

List ==
    /\ Asking
    /\ \E q \in Queries :
          /\ MayAsk("getAuditLogs", Absent, q.filter,
                    OrElse(q.page, DefaultPage), OrElse(q.limit, DefaultLimit))
          /\ \E dbOk \in BOOLEAN, o \in Orders(Matching(q.filter)) :
                GetAuditLogs(q, dbOk, o)

ListByUser ==
    /\ Asking
    /\ \E u \in Users \cup {GhostUser}, q \in UserQueries :
          LET f == [NoFilter EXCEPT !.userId = u, !.action = q.filter.action,
                                    !.targetType = q.filter.targetType]
          IN /\ MayAsk("getAuditLogsByUser", u, f,
                       OrElse(q.page, DefaultPage), OrElse(q.limit, DefaultLimit))
             /\ \E dbOk \in BOOLEAN, o \in Orders(Matching(f)) :
                   GetAuditLogsByUser(u, q, dbOk, o)

ById ==
    /\ Asking
    /\ \E id \in 1..(MaxEvents + 1), dbOk \in BOOLEAN : GetAuditLogById(id, dbOk)

\* the scopes statistics are asked for: everything, one actor, one target type
Scopes == {<<Absent, Absent>>, <<"u1", Absent>>, <<Absent, "User">>}

StatsBegin ==
    /\ Asking
    /\ \E sc \in Scopes, days \in {None, Some(1)} : StatsCountTotal(sc[1], sc[2], days)

StatsEnd ==
    /\ stats.pc = "counted"
    /\ \E dbOk \in BOOLEAN, ra \in RollupOrders(Recent, "action"),
          rt \in RollupOrders(Recent, "targetType"), ru \in RollupOrders(Recent, "userId") :
            StatsCountRecent(dbOk, ra, rt, ru)

Writer == \E u \in Users : Record(u)

Deactivate == \E u \in Users : DeleteUser(u)

Destroy == \E id \in rows : DeleteReminder(id)

NextQuery ==
    List \/ ListByUser \/ ById \/ StatsBegin \/ StatsEnd \/ Writer \/ Tick
        \/ Deactivate \/ Destroy

\* the readers next to concurrent writers, deletions and the passing of time
SpecQuery == Init /\ [][NextQuery]_vars

(* ------------- requests inside one middleware instance together ------- *)
\* faulty variant: req, res and originalSend are kept in variables of the factory
\* call, one set for all requests of the instance
CellShared(rid) == 0

\* the variables the override of request rid reads: originalSend is a const of the
\* inner function and req, res are its parameters, so each call has its own
Cell(rid) == rid

\* auditReminderUpdated(req, res, next) for the next request, sent by u with the
\* reminder id in its path: the closure captures req and res, res.send is replaced
Enter(i, u) ==
    /\ proc.alive
    /\ i \in 1..MaxConc
    /\ proc.reqs[i].pc = "none"
    /\ \A k \in 1..(i - 1) : proc.reqs[k].pc # "none"
    /\ proc' = [proc EXCEPT
                    !.reqs[i] = [NoConcReq EXCEPT
                                    !.pc = "handler", !.user = UserRec(u),
                                    !.params = [NoParams EXCEPT !.id = RowOf(i)],
                                    !.transport = TransportOf(u)],
                    !.cells[Cell(i)] = i]
    /\ UNCHANGED <<req, nreq, writes, nwrites, store, settled, diag, now>>
    /\ UNCHANGED qvars

\* updateReminder of request i answers: res.status(status).json(body) runs the
\* override, which reads req and res.statusCode through its closure, starts
\* createAuditLog and calls originalSend on the response it was called on (this)
Respond(i, status) ==
    LET captured == proc.cells[Cell(i)]
        rq == proc.reqs[captured]
        body == IF status = 200 THEN SuccessBody("updateReminder", RowOf(i)) ELSE ErrorBody
        statusCode == IF captured = i THEN status ELSE rq.status
        d == InterceptedSend("none", rq.user, rq.params, statusCode, body)
        ev == AuditEvent(i, rq.user.userId, RouteTable["updateReminder"].action,
                         RouteTable["updateReminder"].targetType, d.targetId,
                         GetClientIP(rq.transport))
    IN /\ proc.alive
       /\ i \in 1..MaxConc
       /\ proc.reqs[i].pc = "handler"
       /\ proc' = [proc EXCEPT
                       !.reqs[i] = [@ EXCEPT !.pc = "done", !.status = status,
                                             !.sentBody = body, !.sentOn = i,
                                             !.sent = @ + 1],
                       !.seq = Append(@, i)]
       /\ writes' = IF d.dispatch
                    THEN writes \cup {Write(nwrites + 1, ev, "auditLog", FALSE)}
                    ELSE writes
       /\ nwrites' = IF d.dispatch THEN nwrites + 1 ELSE nwrites
       /\ diag' = IF d.caught THEN diag \cup {[rid |-> i, src |-> "auditLog"]} ELSE diag
       /\ UNCHANGED <<req, nreq, store, settled, now>>
       /\ UNCHANGED qvars

EnterAny == \E i \in 1..MaxConc, u \in Users : Enter(i, u)

RespondAny == \E i \in 1..MaxConc, status \in {200, 404} : Respond(i, status)

NextConc == EnterAny \/ RespondAny \/ InsertOk \/ InsertFail

\* requests of the two accounts interleave inside auditReminderUpdated
SpecConc == Init /\ [][NextConc]_vars

(* ---------------------- the authentication operations ----------------- *)
\* faulty variant: login records the attempt as soon as it has found the account
LoginOutcomeLogsAttempts(valid, known, active, passwordOk) ==
    IF ~valid THEN [status |-> 400, reason |-> "invalid", records |-> FALSE]
    ELSE IF ~known THEN [status |-> 401, reason |-> "unknown", records |-> FALSE]
    ELSE IF ~active THEN [status |-> 401, reason |-> "inactive", records |-> TRUE]
    ELSE IF ~passwordOk THEN [status |-> 401, reason |-> "wrongPassword", records |-> TRUE]
    ELSE [status |-> 200, reason |-> "ok", records |-> TRUE]

\* login up to its createAuditLog call: the body is validated, the account looked up
\* by username, its status checked, the password compared; each failure returns
LoginOutcome(valid, known, active, passwordOk) ==
    IF ~valid THEN [status |-> 400, reason |-> "invalid", records |-> FALSE]
    ELSE IF ~known THEN [status |-> 401, reason |-> "unknown", records |-> FALSE]
    ELSE IF ~active THEN [status |-> 401, reason |-> "inactive", records |-> FALSE]
    ELSE IF ~passwordOk THEN [status |-> 401, reason |-> "wrongPassword", records |-> FALSE]
    ELSE [status |-> 200, reason |-> "ok", records |-> TRUE]

\* changePassword up to its createAuditLog call: the body is validated, the account
\* of the token looked up, the current password compared
ChangePasswordOutcome(valid, found, currentOk) ==
    IF ~valid THEN [status |-> 400, reason |-> "invalid", records |-> FALSE]
    ELSE IF ~found THEN [status |-> 404, reason |-> "notFound", records |-> FALSE]
    ELSE IF ~currentOk THEN [status |-> 400, reason |-> "wrongCurrent", records |-> FALSE]
    ELSE [status |-> 200, reason |-> "ok", records |-> TRUE]

\* the handler of an authentication operation with outcome out for the account
\* userId: await createAuditLog(userId, ..., userId, ipAddress) and then the
\* success response, or the error response at once
AuthHandler(out, userId) ==
    /\ IF out.records
       THEN DirectCall([req EXCEPT !.entity = userId, !.reason = out.reason], userId, userId)
       ELSE /\ ResSend([req EXCEPT !.reason = out.reason], out.status, ErrorBody)
            /\ UNCHANGED <<store, settled>>
    /\ UNCHANGED <<nreq, now>>
    /\ UNCHANGED qvars
    /\ UNCHANGED proc

\* login(req, res) with the given username (usernames stand for the ids of their
\* accounts) and a password that is the account's or not
Login(valid, username, passwordOk) ==
    LET known == username \in DOMAIN accounts
    IN /\ req.pc = "handler" /\ ~req.unit /\ proc.alive
       /\ req.op = "login"
       /\ AuthHandler(LoginOutcome(valid, known, known /\ accounts[username] = "active",
                                   passwordOk),
                      username)

\* changePassword(req, res) of the account of the token
ChangePassword(valid, currentOk) ==
    /\ req.pc = "handler" /\ ~req.unit /\ proc.alive
    /\ req.op = "changePassword"
    /\ AuthHandler(ChangePasswordOutcome(valid, req.user.userId \in DOMAIN accounts, currentOk),
                   req.user.userId)

ReceiveAuth ==
    \E op \in {"login", "changePassword"}, u \in Users \cup {NoUser} : Arrive(op, u)

LoginAny ==
    \E valid \in BOOLEAN, username \in Users \cup {GhostUser}, passwordOk \in BOOLEAN :
        Login(valid, username, passwordOk)

ChangePasswordAny == \E valid \in BOOLEAN, currentOk \in BOOLEAN : ChangePassword(valid, currentOk)

NextAuth ==
    ReceiveAuth \/ LoginAny \/ ChangePasswordAny \/ InsertOk \/ InsertFail \/ Deactivate

\* logins and password changes, one after the other, while accounts are deactivated
SpecAuth == Init /\ [][NextAuth]_vars

(* ------------------- routed requests of clients that leave ------------- *)
\* the routes whose requests reach createAuditLog: through the send override or by
\* the controller's own awaited call
RecordingOps == {op \in Ops : RouteTable[op].kind \in {"wrapped", "direct"}}

\* the technician u2 (or a caller without token, on the public routes) sends the
\* next request after the response to the one before
ReceiveRecording ==
    \E op \in RecordingOps, u \in {"u2", NoUser} : Arrive(op, u)

\* the client closes the connection while its request is being handled: Express
\* keeps running the handler, whose res.json still goes through res.send (the
\* handler's commit and its response are one step here, so a client that leaves
\* after the commit has left before that step)
Abort ==
    /\ req.pc \in {"handler", "awaitAudit"}
    /\ ~req.unit
    /\ req.connected
    /\ req' = [req EXCEPT !.connected = FALSE]
    /\ UNCHANGED <<nreq, writes, nwrites, store, settled, diag, now>>
    /\ UNCHANGED qvars
    /\ UNCHANGED proc

NextAbort == ReceiveRecording \/ Controller \/ InsertOk \/ InsertFail \/ Abort

SpecAbort == Init /\ [][NextAbort]_vars

(* -------------------- routed requests while time passes ---------------- *)
NextClock == ReceiveRecording \/ Controller \/ InsertOk \/ InsertFail \/ Tick

\* the routers next to the clock: requests come one after the other, while inserts
\* of earlier requests are still pending and days pass
SpecClock == Init /\ [][NextClock]_vars

(* ------------------------------ properties ---------------------------- *)
\* the status is in the success range
Success2xx(r) == r.status >= 200 /\ r.status < 300

\* rows of the table that request rid caused
EventsOf(rid) == {i \in DOMAIN store : store[i].rid = rid}

\* writes of request rid that have not finished
PendingOf(rid) == {w \in writes : w.ev.rid = rid}

\* finished writes of request rid
SettledOf(rid) == {x \in settled : x.rid = rid}

\* every audit write request rid started has finished, and none failed
WritesDone(rid) == PendingOf(rid) = {} /\ \A x \in SettledOf(rid) : x.ok

\* req.user carries a userId
HasActor(r) == r.user.present /\ Truthy(r.user.userId)

\* C1: every routed create/update/delete of a user, role, station, profile, backup
\* or reminder, bulk status update and password reset that answered 2xx for an
\* authenticated actor has, once its audit writes finished without a store failure,
\* exactly one row with its action, its targetType and the actor as userId
C1_ExactlyOneEvent ==
    (/\ req.pc = "done" /\ ~req.unit /\ Success2xx(req) /\ HasActor(req)
     /\ RouteTable[req.op].kind \in {"explicit", "wrapped"}
     /\ WritesDone(req.rid))
    => Cardinality({i \in EventsOf(req.rid) :
                        /\ store[i].action = RouteTable[req.op].action
                        /\ store[i].targetType = RouteTable[req.op].targetType
                        /\ store[i].userId = req.user.userId}) = 1

\* C2: whenever an audit write of the answered request has finished, with or without
\* the row inserted, the response is the route's success status and success payload
C2_ResponseIndependentOfStore ==
    \A x \in SettledOf(req.rid) :
        (req.pc = "done" /\ ~req.unit)
        => /\ req.status = RouteTable[req.op].ok
           /\ req.body = SuccessBody(req.op, req.entity)
           /\ req.sent = 1

\* a login or register or changePassword answered after its insert failed
C2_Witness ==
    /\ req.pc = "done" /\ ~req.unit
    /\ RouteTable[req.op].kind = "direct"
    /\ \E x \in SettledOf(req.rid) : ~x.ok

\* C3: createAuditLog and logAuditEvent, on any arguments and any insert outcome,
\* hand their caller a resolved promise and throw nothing; a failed insert is logged
\* by createAuditLog's console.error and leaves no row
C3_RecorderNeverThrows ==
    /\ \A x \in settled :
          /\ x.promise = "resolved"
          /\ ~x.ok => /\ [rid |-> x.rid, src |-> "createAuditLog"] \in diag
                      /\ EventsOf(x.rid) = {}
    /\ (req.unit /\ ~req.wrapped /\ req.pc = "done") => req.status = RouteTable[req.op].ok

\* logAuditEvent was called with a request that has an actor, and the insert failed
C3_Witness ==
    /\ req.unit /\ req.pc = "done"
    /\ \E x \in settled : x.via = "logAuditEvent" /\ ~x.ok

\* C4: while a write started by the send override is pending, the response of its
\* request has already been handed to the original send, exactly once
C4_SendNotDelayed ==
    \A w \in PendingOf(req.rid) :
        w.via = "auditLog" => (req.pc = "done" /\ req.sent = 1 /\ Success2xx(req))

\* a wrapped request was answered and its audit write is still pending
C4_Witness ==
    /\ ~req.unit /\ req.wrapped /\ req.pc = "done" /\ req.sent = 1
    /\ \E w \in PendingOf(req.rid) : w.via = "auditLog"

\* C5: on every audit path, while an audit write of a request is pending the
\* request already has its response
C5_ResponseNeverWaits ==
    \A w \in PendingOf(req.rid) : ~req.unit => req.pc = "done"

\* C6 as stated: no row or pending write belongs to a routed request without req.user
C6_AnonymousNeverAudited ==
    (~req.unit /\ ~req.user.present) => (EventsOf(req.rid) = {} /\ PendingOf(req.rid) = {})

\* C6: the send override and logAuditEvent start a write only for a request whose
\* req.user carries a userId, which becomes the row's userId; a routed request
\* without req.user causes a write only as a successful register or login, with
\* that route's action and the account's own id as userId and targetId
C6_AnonymousOnlyRegisterLogin ==
    /\ \A w \in PendingOf(req.rid) :
          /\ w.via = "auditLog" => (HasActor(req) /\ w.ev.userId = req.user.userId)
          /\ w.via = "logAuditEvent" => Truthy(w.ev.userId)
    /\ \A x \in SettledOf(req.rid) : x.via = "auditLog" => HasActor(req)
    /\ (~req.unit /\ ~req.user.present) =>
          /\ (PendingOf(req.rid) # {} \/ SettledOf(req.rid) # {})
                => req.op \in {"register", "login"}
          /\ \A ev \in {w.ev : w \in PendingOf(req.rid)} \cup {store[i] : i \in EventsOf(req.rid)} :
                /\ ev.action = RouteTable[req.op].action
                /\ ev.userId = req.entity
                /\ ev.targetId = req.entity

\* a 2xx response went through the send override without req.user: nothing started
C6_Witness ==
    /\ req.unit /\ req.wrapped /\ req.pc = "done" /\ Success2xx(req)
    /\ ~req.user.present
    /\ nwrites = 0

\* the ids found in payloads
PayloadIds == {LocVal[l] : l \in LocSet}

\* C7: the targetId of a write started by the send override is the resolver's result
\* whenever a resolver was supplied; without one it is params.id, else
\* params.stationId, else params.userId; it comes from the payload only when no
\* resolver and none of the three parameters is there
C7_Precedence ==
    \A w \in PendingOf(req.rid) :
        (w.via = "auditLog" /\ req.unit) =>
            LET t == w.ev.targetId
                p == req.params
            IN /\ req.resolver = "value" => t = ResolverValue
               /\ req.resolver # "none" => t \in {ResolverValue, Absent}
               /\ (req.resolver = "none" /\ p.id # Absent) => t = p.id
               /\ (req.resolver = "none" /\ p.id = Absent /\ p.stationId # Absent)
                     => t = p.stationId
               /\ (req.resolver = "none" /\ p.id = Absent /\ p.stationId = Absent
                     /\ p.userId # Absent) => t = p.userId
               /\ t \in PayloadIds => (req.resolver = "none" /\ p = NoParams)

\* params.id and a different data.id are both there, and params.id was recorded
C7_Witness ==
    /\ req.unit /\ req.resolver = "none"
    /\ req.params.id = "p-id" /\ req.body.kind = "json" /\ req.body.data["id"] = "d-id"
    /\ \E w \in PendingOf(req.rid) : w.via = "auditLog" /\ w.ev.targetId = "p-id"

\* C8: without resolver and path parameters the targetId is the value at the first
\* of data.id, data.user.id, data.station.id, data.profile.id, data.backup.id,
\* data.reminder.id, data.role.id that holds one, and "unknown" when none does
C8_PayloadOrder ==
    \A w \in PendingOf(req.rid) :
        (w.via = "auditLog" /\ req.unit /\ req.resolver = "none" /\ req.params = NoParams) =>
            LET order == <<"id", "user", "station", "profile", "backup", "reminder", "role">>
                there == {i \in 1..7 : req.body.kind = "json" /\ req.body.data[order[i]] # Absent}
            IN IF there = {}
               THEN w.ev.targetId = "unknown"
               ELSE \E i \in there :
                        /\ \A j \in there : i <= j
                        /\ w.ev.targetId = req.body.data[order[i]]

\* data.station.id and data.role.id are there, nothing earlier: the station id is taken
C8_Witness ==
    /\ req.unit /\ req.resolver = "none" /\ req.params = NoParams
    /\ req.body.kind = "json"
    /\ {l \in LocSet : req.body.data[l] # Absent} = {"station", "role"}
    /\ \E w \in PendingOf(req.rid) : w.via = "auditLog" /\ w.ev.targetId = "d-station"

\* C9: every 2xx response with an actor that passed the send override started a
\* write, and that write names a targetId ("unknown" at worst)
C9_AlwaysDispatched ==
    (req.unit /\ req.wrapped /\ req.pc = "done" /\ Success2xx(req) /\ HasActor(req))
    => /\ PendingOf(req.rid) # {} \/ SettledOf(req.rid) # {}
       /\ \A w \in PendingOf(req.rid) : w.ev.targetId # Absent

\* C10: a createStation answered 201 for an actor has, once its audit writes
\* finished without a store failure, exactly one STATION_CREATED / Station row with
\* the actor as userId and data.station.id of the payload as targetId
C10_StationCreatedEvent ==
    (/\ req.pc = "done" /\ ~req.unit /\ req.op = "createStation" /\ req.status = 201
     /\ HasActor(req) /\ WritesDone(req.rid))
    => Cardinality({i \in EventsOf(req.rid) :
                        /\ store[i].action = "STATION_CREATED"
                        /\ store[i].targetType = "Station"
                        /\ store[i].userId = req.user.userId
                        /\ store[i].targetId = req.body.data["station"]}) = 1

\* C11: a response that passed the send override with a status outside 200..299
\* started no audit write, and no row of the table belongs to its request
C11_OnlySuccess ==
    (req.wrapped /\ req.pc = "done" /\ ~Success2xx(req))
    => (PendingOf(req.rid) = {} /\ SettledOf(req.rid) = {} /\ EventsOf(req.rid) = {})

\* a routed reminder request of an authenticated actor was answered 404
C11_Witness ==
    /\ ~req.unit /\ req.wrapped /\ req.pc = "done" /\ HasActor(req)
    /\ req.status = 404 /\ req.sent = 1

\* C12: over all its audit paths a routed request starts at most one audit write,
\* so at most one row of the table belongs to it
C12_AtMostOneEvent ==
    \A rid \in 1..nreq :
        /\ Cardinality(PendingOf(rid)) + Cardinality(SettledOf(rid)) <= 1
        /\ Cardinality(EventsOf(rid)) <= 1

\* two routed requests each left their row: a reminder change and a login
C12_Witness ==
    /\ nreq = 2 /\ Len(store) = 2
    /\ store[1].rid # store[2].rid
    /\ \E i \in 1..2 : store[i].action = "REMINDER_UPDATED"
    /\ \E i \in 1..2 : store[i].action = "USER_LOGIN"

\* the two list operations
Lists == {"getAuditLogs", "getAuditLogsByUser"}

\* C13: every step of every operation, deleteUser and deleteReminder among them,
\* leaves each row of AuditLogs in place with all its fields: the table only grows
C13_AppendOnly ==
    [][Len(store') >= Len(store) /\ SubSeq(store', 1, Len(store)) = store]_vars

\* a row outlives its actor, deactivated by deleteUser, and its target, destroyed
\* by deleteReminder
C13_Witness ==
    \E i \in DOMAIN store :
        /\ store[i].userId = "u2" /\ accounts["u2"] = "inactive"
        /\ store[i].targetId = "r1" /\ "r1" \notin rows

\* C14: a step of getAuditLogs, getAuditLogById, getAuditLogsByUser or
\* getAuditLogStatistics, whatever it answers, changes no table
C14_ReadsWriteNothing ==
    [][(resp'.status # 0 \/ stats'.pc # stats.pc)
          => (store' = store /\ accounts' = accounts /\ rows' = rows)]_vars

\* a read answered 500 over a table that holds rows
C14_Witness ==
    /\ resp.op = "getAuditLogsByUser" /\ resp.status = 500 /\ ~resp.asked.dbOk
    /\ Len(store) = MaxEvents

RECURSIVE SumLen(_)
\* the item counts of the pages, added up
SumLen(pages) == IF pages = <<>> THEN 0 ELSE Len(Head(pages)) + SumLen(Tail(pages))

\* C15: when pages 1..totalPages of a listing were fetched with one page size over an
\* unchanged table, their item counts add up to totalItems and no row is on two pages
C15_WalkPartitions ==
    (/\ walk.op \in Lists /\ walk.limit >= 1
     /\ walk.totalPages.kind = "int" /\ Len(walk.pages) = walk.totalPages.n)
    => /\ SumLen(walk.pages) = walk.total
       /\ \A i, j \in DOMAIN walk.pages :
             i # j => \A a \in DOMAIN walk.pages[i], b \in DOMAIN walk.pages[j] :
                          walk.pages[i][a] # walk.pages[j][b]

\* C16: in every 200 response of a list operation totalPages is the integer
\* ceil(totalItems / itemsPerPage), hasNextPage is currentPage < totalPages and
\* hasPreviousPage is currentPage > 1
C16_PaginationBlock ==
    (resp.op \in Lists /\ resp.status = 200)
    => /\ resp.totalPages.kind = "int"
       /\ resp.itemsPerPage >= 1
       /\ (resp.totalPages.n - 1) * resp.itemsPerPage < resp.totalItems
       /\ resp.totalItems <= resp.totalPages.n * resp.itemsPerPage
       /\ resp.hasNextPage = (resp.currentPage < resp.totalPages.n)
       /\ resp.hasPreviousPage = (resp.currentPage > 1)

\* a page below 1, or a page size outside 1..100, was asked for
BadPaging(a) ==
    \/ a.page # None /\ a.page[1] < 1
    \/ a.limit # None /\ (a.limit[1] < 1 \/ a.limit[1] > MaxLimit)

\* C17: a list operation answers at most 100 items, and with the database up it
\* answers bad paging (for an actor that exists) with the 400 of a validation
\* error, without a query
C17_PageSizeBounded ==
    (resp.op \in Lists /\ resp.status # 0)
    => /\ Len(resp.items) <= MaxLimit
       /\ (/\ BadPaging(resp.asked) /\ resp.asked.dbOk
           /\ resp.op = "getAuditLogsByUser" => UserExists(resp.asked.key))
             => (resp.status = 400 /\ resp.errors /\ ~resp.scanned)

\* C18: getAuditLogs asked with a startDate after its endDate answers 400 with
\* messages and sends no query to the table
C18_InvertedRangeRejected ==
    (/\ resp.op = "getAuditLogs"
     /\ resp.asked.filter.startDate # None /\ resp.asked.filter.endDate # None
     /\ resp.asked.filter.startDate[1] > resp.asked.filter.endDate[1]
     /\ resp.asked.dbOk)
    => (resp.status = 400 /\ resp.errors /\ ~resp.scanned)

C20_RecentWithinTotal ==
    (resp.op = "getAuditLogStatistics" /\ resp.status = 200)
    => resp.recentLogs <= resp.totalLogs

\* the rows of the table a filter asks for: every supplied dimension holds (actor,
\* target type and target id equal, action containing the fragment, timestamp within
\* the bounds) and, with a search text, one of the five texts contains it
Wanted(f) ==
    {i \in DOMAIN store :
        LET ev == store[i]
        IN /\ f.userId # Absent => ev.userId = f.userId
           /\ Truthy(f.action) => ILike(ev.action, f.action)
           /\ f.targetType # Absent => ev.targetType = f.targetType
           /\ f.targetId # Absent => ev.targetId = f.targetId
           /\ f.startDate # None => ev.timestamp >= f.startDate[1]
           /\ f.endDate # None => ev.timestamp <= f.endDate[1]
           /\ Truthy(f.search) =>
                 \E text \in {ev.action, ev.targetType, NamesOf(ev.userId).firstName,
                               NamesOf(ev.userId).lastName, NamesOf(ev.userId).username} :
                     ILike(text, f.search)}

\* C21: getAuditLogs, asked with valid paging while the database is up, answers 200
\* with exactly the rows that satisfy every supplied filter and the search text:
\* totalItems counts them and the page holds the first of them
C21_ExactlyTheMatching ==
    (/\ resp.op = "getAuditLogs" /\ resp.asked.dbOk /\ ~BadPaging(resp.asked))
    => /\ resp.status = 200
       /\ resp.totalItems = Cardinality(Wanted(resp.asked.filter))
       /\ \A k \in DOMAIN resp.items : resp.items[k] \in Wanted(resp.asked.filter)
       /\ Len(resp.items) = Min(resp.itemsPerPage,
                                Cardinality(Wanted(resp.asked.filter))
                                    - Min((resp.currentPage - 1) * resp.itemsPerPage,
                                          Cardinality(Wanted(resp.asked.filter))))

\* C22: in every 200 response of a list operation the rows come by timestamp
\* descending, and rows of equal timestamp in the order they were inserted
C22_OrderDetermined ==
    (resp.op \in Lists /\ resp.status = 200)
    => \A a, b \in DOMAIN resp.items :
          a < b => \/ store[resp.items[a]].timestamp > store[resp.items[b]].timestamp
                   \/ /\ store[resp.items[a]].timestamp = store[resp.items[b]].timestamp
                      /\ resp.items[a] < resp.items[b]

\* the audit rows and pending audit writes of the request
AuditedOf(rid) == {w.ev : w \in PendingOf(rid)} \cup {store[i] : i \in EventsOf(rid)}

\* C23: the ipAddress of every event a request causes is the first entry of its
\* x-forwarded-for header when the header is there and that entry is not empty,
\* else the peer address of its socket, else "0.0.0.0", and is never empty
C23_SourceAddress ==
    \A ev \in AuditedOf(req.rid) :
        LET t == req.transport
            forwarded == Len(t.xff) >= 1 /\ t.xff[1] # ""
            peer == t.remote # Absent /\ t.remote # ""
        IN /\ forwarded => ev.ipAddress = t.xff[1]
           /\ (~forwarded /\ peer) => ev.ipAddress = t.remote
           /\ (~forwarded /\ ~peer) => ev.ipAddress = "0.0.0.0"
           /\ ev.ipAddress # "" /\ ev.ipAddress # Absent

\* a row was recorded for a request that came with a forwarded chain of two entries
\* and a peer address: it carries the first entry
C23_Witness ==
    /\ req.unit /\ Len(store) = 1
    /\ req.transport = [xff |-> <<"1.1.1.1", "2.2.2.2">>, remote |-> "10.0.0.7"]
    /\ store[1].ipAddress = "1.1.1.1"

\* the rows of the scope of the statistics response inside its window, as the
\* table and the clock stand
InWindow ==
    {i \in Matching(resp.filter) : store[i].timestamp >= now - OrElse(resp.days, DefaultDays)}

\* a rollup by column has at most 10 entries, each a group of the rows in the window
\* with its exact count, no group twice, counts descending
GoodRollup(r, column) ==
    /\ Len(r) <= TopN
    /\ \A i \in DOMAIN r :
          /\ r[i][2] >= 1
          /\ r[i][2] = Cardinality({k \in InWindow : store[k][column] = r[i][1]})
    /\ \A i, j \in DOMAIN r : i < j => (r[i][1] # r[j][1] /\ r[i][2] >= r[j][2])

\* C24: the action, targetType and userId rollups of a statistics response are good
\* rollups of the rows in the window, and a call repeated at once for the same scope
\* and days over the same table returns the same three lists
C24_Rollups ==
    (resp.op = "getAuditLogStatistics" /\ resp.status = 200)
    => /\ GoodRollup(resp.rollups.actionStats, "action")
       /\ GoodRollup(resp.rollups.targetTypeStats, "targetType")
       /\ GoodRollup(resp.rollups.userActivityStats, "userId")
       /\ resp.prior.there => resp.rollups = resp.prior

\* C25: of two events caused by requests of one actor, the second request received
\* after the response to the first, the event of the earlier request never carries
\* the later timestamp, in whatever order the two inserts complete
C25_TimestampsFollowRequests ==
    \A e1, e2 \in {w.ev : w \in writes} \cup {store[i] : i \in DOMAIN store} :
        (e1.userId = e2.userId /\ e1.rid < e2.rid) => e1.timestamp <= e2.timestamp

\* an actor's second request was stamped a day after the first, and its row was
\* inserted before the row of the first
C25_Witness ==
    /\ Len(store) = 2
    /\ store[1].userId = store[2].userId
    /\ store[1].rid > store[2].rid
    /\ store[1].timestamp > store[2].timestamp

\* C26: a routed request behind an auditLog middleware whose handler committed and
\* answered with its success status has had createAuditLog called for it, whether
\* or not its client was still connected
C26_AbortStillAudited ==
    (/\ ~req.unit /\ req.wrapped /\ req.pc = "done"
     /\ req.status = RouteTable[req.op].ok)
    => Cardinality(PendingOf(req.rid)) + Cardinality(SettledOf(req.rid)) = 1

\* the client of a deleteReminder left, the handler answered 200 all the same, and
\* the audit write of the request is under way
C26_Witness ==
    /\ ~req.unit /\ req.op = "deleteReminder" /\ ~req.connected
    /\ req.pc = "done" /\ req.status = 200
    /\ \E w \in PendingOf(req.rid) : w.via = "auditLog" /\ w.ev.action = "REMINDER_DELETED"

\* C27: whatever the interleaving of the requests inside auditReminderUpdated, the
\* event a response triggers carries the userId, the path id and the address of the
\* request that was answered, only 2xx answers trigger one, and the original send
\* of each request is called once, on its own response, with its own body
C27_NoMixing ==
    /\ \A ev \in {w.ev : w \in writes} \cup {store[k] : k \in DOMAIN store} :
          ev.rid \in 1..MaxConc =>
             LET rq == proc.reqs[ev.rid]
             IN rq.pc = "done" =>
                   /\ rq.status = 200
                   /\ ev.userId = rq.user.userId
                   /\ ev.targetId = rq.params.id
                   /\ ev.ipAddress = GetClientIP(rq.transport)
    /\ \A i \in 1..MaxConc :
          proc.reqs[i].pc = "done" =>
             /\ proc.reqs[i].sent = 1 /\ proc.reqs[i].sentOn = i
             /\ proc.reqs[i].sentBody =
                    IF proc.reqs[i].status = 200
                    THEN SuccessBody("updateReminder", RowOf(i)) ELSE ErrorBody

\* two requests of different accounts were inside the middleware together, the
\* second was answered first, and both rows are in the table
C27_Witness ==
    /\ proc.seq = <<2, 1>>
    /\ proc.reqs[1].user # proc.reqs[2].user
    /\ Len(store) = 2
    /\ {store[1].rid, store[2].rid} = {1, 2}

\* C28: the process keeps running whatever inserts fail, on the three audit paths:
\* no failed AuditLog.create reaches the unhandledRejection handler, each is logged
\* by the catch block of createAuditLog
C28_ServerSurvives ==
    /\ proc.alive
    /\ \A x \in settled :
          /\ [rid |-> x.rid, src |-> "unhandledRejection"] \notin diag
          /\ ~x.ok => [rid |-> x.rid, src |-> "createAuditLog"] \in diag

\* the insert of a reminder route's audit write failed after the response was sent,
\* and the process runs on
C28_Witness ==
    /\ ~req.unit /\ req.wrapped /\ req.pc = "done"
    /\ \E x \in SettledOf(req.rid) : x.via = "auditLog" /\ ~x.ok
    /\ proc.alive

\* the reasons login and changePassword reject a request for
Rejections == {"invalid", "unknown", "inactive", "wrongPassword", "notFound", "wrongCurrent"}

\* C29: a login or changePassword that was rejected (unknown user, inactive account,
\* wrong password, wrong current password) started no audit write and left no row;
\* one that succeeded called createAuditLog exactly once, before its response, for
\* USER_LOGIN resp. PASSWORD_CHANGED on targetType User with the account's id as
\* userId and targetId, and has one row for it when the insert went through
C29_AuthEvents ==
    (~req.unit /\ req.op \in {"login", "changePassword"}) =>
        /\ req.reason \in Rejections =>
              /\ req.pc = "done" /\ ~Success2xx(req)
              /\ PendingOf(req.rid) = {} /\ SettledOf(req.rid) = {}
              /\ EventsOf(req.rid) = {}
        /\ \A ev \in AuditedOf(req.rid) :
              /\ ev.action = IF req.op = "login" THEN "USER_LOGIN" ELSE "PASSWORD_CHANGED"
              /\ ev.targetType = "User"
              /\ ev.userId = req.entity /\ ev.targetId = req.entity
              /\ req.op = "changePassword" => req.entity = req.user.userId
        /\ PendingOf(req.rid) # {} => (req.pc = "awaitAudit" /\ req.sent = 0)
        /\ (req.pc = "done" /\ Success2xx(req)) =>
              /\ req.reason = "ok"
              /\ PendingOf(req.rid) = {}
              /\ Cardinality(SettledOf(req.rid)) = 1
              /\ \A x \in SettledOf(req.rid) :
                    /\ x.via = "createAuditLog"
                    /\ Cardinality(EventsOf(req.rid)) = IF x.ok THEN 1 ELSE 0

\* an account logged in and left its row, was deactivated, and its next login was
\* rejected as inactive without a second row
C29_Witness ==
    /\ req.op = "login" /\ req.pc = "done" /\ req.status = 401
    /\ req.reason = "inactive"
    /\ Len(store) = 1 /\ store[1].action = "USER_LOGIN"
    /\ store[1].userId = "u2" /\ store[1].targetId = "u2"
    /\ accounts["u2"] = "inactive"

====
